---- MODULE Spec2Model ----
(***************************************************************************)
(* Reactive notebook core: the dependency analyzer and graph builder       *)
(* (Backend/dependency.py), the executor (Backend/executor.py), the        *)
(* Reactor (Backend/reactor.py) and the cell-editing handlers of the       *)
(* facade (Backend/main.py).                                               *)
(*                                                                         *)
(* A cell's source is a sequence of statements; the analyzer walks it the  *)
(* way VariableVisitor walks the AST and the executor runs it against the  *)
(* shared namespace.  Iteration over a Python set of strings has no fixed  *)
(* order, so every loop over a set is a choice over all orders.            *)
(***************************************************************************)
EXTENDS Integers, Sequences, FiniteSets, TLC

\* ------------------------------------------------------------------------
\* Bounds
\* ------------------------------------------------------------------------

\* Values held in the namespace are naturals; arithmetic saturates here.
MaxVal == 2

\* Number of list-changing operations (create, update, delete, set_cells,
\* clear_cell_state) in one behaviour.
MaxEdits == 1

\* Number of lines of a notebook text handed to parse_notebook.
MaxLines == 3

\* Number of cells of a list handed to build_dependency_graph on its own.
MaxCells == 3

\* Size of an upstream set of a graph handed to detect_cycle,
\* get_downstream_cells or topological_sort on its own.
MaxDeps == 2

\* Number of statements of a source handed to analyze_python_code on its own.
MaxStmts == 3

\* ------------------------------------------------------------------------
\* Values shared by the modules
\* ------------------------------------------------------------------------

None == "None"

IDLE == "idle"
RUNNING == "running"
SUCCESS == "success"
ERROR == "error"
BLOCKED == "blocked"

CellStatus == {IDLE, RUNNING, SUCCESS, ERROR, BLOCKED}

\* Identifiers handed out by generate_cell_id, in the order they are drawn;
\* a notebook file of k cells uses the first k.
IdPool == <<"c1", "c2", "c3", "c4", "c5", "c6">>

\* An identifier no cell ever carries.
UnknownId == "zz"

Range(s) == {s[i] : i \in 1..Len(s)}

Sat(v) == IF v > MaxVal THEN MaxVal ELSE v

RECURSIVE SumOver(_, _)
SumOver(ns, names) ==
    IF names = {} THEN 0
    ELSE LET n == CHOOSE m \in names : TRUE
         IN ns[n] + SumOver(ns, names \ {n})

\* ------------------------------------------------------------------------
\* Cell sources.  A statement is  target = const + sum(loads),
\* target += const + sum(loads),  or  target = 1/0.
\* ------------------------------------------------------------------------

Assign(t, loads, c) == [op |-> "assign", target |-> t, loads |-> loads, const |-> c]
AugAssign(t, loads, c) == [op |-> "aug", target |-> t, loads |-> loads, const |-> c]
DivZero(t) == [op |-> "div0", target |-> t, loads |-> {}, const |-> 0]

\* raise SystemExit
Exit == [op |-> "exit", target |-> "SystemExit", loads |-> {}, const |-> 0]

\* a line that is not Python, such as  y = = x
Invalid == [op |-> "invalid", target |-> "", loads |-> {}, const |-> 0]

\* ast.parse and exec raise SyntaxError on the source as a whole
Unparsable(code) == \E i \in 1..Len(code) : code[i].op = "invalid"

\* the query of a sql cell whose marker carries as=t
Query(t) == [op |-> "sql", target |-> t, loads |-> {}, const |-> 1]

X0 == <<Assign("x", {}, 0)>>
X1 == <<Assign("x", {}, 1)>>
Y1 == <<Assign("y", {}, 1)>>
Counter0 == <<Assign("counter", {}, 0)>>
IncCounter == <<AugAssign("counter", {}, 1)>>
XInc == <<AugAssign("x", {}, 1)>>
XDiv == <<DivZero("x")>>
YDiv == <<DivZero("y")>>
YfromXInvalid == <<Assign("y", {"x"}, 0), Invalid>>
WDiv == <<DivZero("w")>>
XfromW == <<Assign("x", {"w"}, 0)>>
YfromW == <<Assign("y", {"w"}, 0)>>
XfromY == <<Assign("x", {"y"}, 0)>>
XfromZ == <<Assign("x", {"z"}, 0)>>
YfromX == <<Assign("y", {"x"}, 0)>>
ZfromY == <<Assign("z", {"y"}, 0)>>
ZfromXY == <<Assign("z", {"x", "y"}, 0)>>
ZfromW == <<Assign("z", {"w"}, 0)>>
WfromZ == <<Assign("w", {"z"}, 0)>>
XandZ == <<Assign("x", {}, 0), Assign("z", {}, 1)>>
ResultThenDiv == <<Assign("_result", {}, 1), DivZero("x")>>
ExitCell == <<Exit>>
SqlX == <<Query("x")>>
ResultFromX == <<Assign("_result", {"x"}, 0)>>
YfromXResult == <<Assign("y", {"x"}, 0), Assign("_result", {"y"}, 0)>>

Cell(id, code) == [id |-> id, code |-> code, cell_type |-> "python", as_var |-> None]

IsQuery(code) == code /= <<>> /\ code[1].op = "sql"

\* parse_notebook: the marker of a sql cell gives its type and its as name
MkCells(codes) ==
    [i \in 1..Len(codes) |->
       IF IsQuery(codes[i])
       THEN [Cell(IdPool[i], codes[i]) EXCEPT !.cell_type = "sql",
                                              !.as_var = codes[i][1].target]
       ELSE Cell(IdPool[i], codes[i])]

\* Notebook files the facade may load at startup.
Notebooks ==
    { <<>>,
      <<XDiv, YfromX, ZfromY>>,
      <<X1, Y1, ZfromXY>>,
      <<X1, YfromX, ZfromXY>>,
      <<Counter0, IncCounter>>,
      <<X0, X1, YfromX>>,
      <<XandZ, XfromZ, YfromX>>,
      <<XfromZ, YfromX, ZfromXY>>,
      <<XfromY, YfromX, ZfromW, WfromZ>>,
      <<SqlX, YfromX>> }

\* Notebook files whose cells are only run: the ones above, one with two
\* cells reading the same failing cell, one with a cell reading two roots,
\* the second one failing, and one with a cell that does not parse between
\* a cell it names and a cell naming it
RunNotebooks ==
    Notebooks \cup { <<WDiv, XfromW, YfromW>>, <<X1, YDiv, ZfromXY>>,
                     <<X1, YfromXInvalid, ZfromY>> }

\* Notebook files for the wider client, one with a cell whose execution
\* does not return and two with a cell that renders an output
ApiNotebooks ==
    { <<>>,
      <<XDiv, YfromX, ZfromY>>,
      <<X1, YfromX, ZfromXY>>,
      <<XfromZ, YfromX, ZfromXY>>,
      <<ResultThenDiv, ExitCell>>,
      <<X1, ResultFromX>>,
      <<X1, YfromXResult>> }

\* Sources a client sends with update and create requests.
UpdateCodes == { XfromY }
CreateCodes == { <<>> }

\* ------------------------------------------------------------------------
\* dependency.py : analyzer
\* ------------------------------------------------------------------------

common_builtins == {"print", "len", "range"}

NewVisitor == [reads |-> {}, writes |-> {}, required_reads |-> {}, _local_scope |-> {}]

\* visit_Name with a Load context, for each name of the value expression
VisitLoads(v, loads) == [v EXCEPT !.reads = @ \cup (loads \ v._local_scope)]

\* visit_Name with a Store context (the targets of an Assign are visited
\* before its value)
VisitStore(v, t) == [v EXCEPT !.writes = @ \cup {t}, !._local_scope = @ \cup {t}]

\* the target of an augmented assignment only stored, as that of a plain
\* assignment
visit_AugAssign_store(v, s) == VisitLoads(VisitStore(v, s.target), s.loads)

visit_AugAssign(v, s) ==
    LET v1 == IF s.target \notin v._local_scope
              THEN [v EXCEPT !.reads = @ \cup {s.target},
                             !.required_reads = @ \cup {s.target}]
              ELSE v
    IN VisitLoads(VisitStore(v1, s.target), s.loads)

VisitStmt(v, s) ==
    IF s.op = "aug" THEN visit_AugAssign(v, s)
    ELSE IF s.op = "exit" THEN VisitLoads(v, {s.target})
    ELSE VisitLoads(VisitStore(v, s.target), s.loads)

RECURSIVE VisitBody(_, _, _)
VisitBody(v, code, i) ==
    IF i > Len(code) THEN v ELSE VisitBody(VisitStmt(v, code[i]), code, i + 1)

\* the lines that parse analysed, the others passed over
analyze_python_code_lenient(code) ==
    LET visitor == VisitBody(NewVisitor,
                             SelectSeq(code, LAMBDA s : s.op /= "invalid"), 1)
    IN [reads |-> ((visitor.reads \ common_builtins) \ visitor.writes)
                    \cup visitor.required_reads,
        writes |-> visitor.writes]

analyze_python_code(code) ==
    IF Unparsable(code) THEN [reads |-> {}, writes |-> {}]
    ELSE
    LET visitor == VisitBody(NewVisitor, code, 1)
    IN [reads |-> ((visitor.reads \ common_builtins) \ visitor.writes)
                    \cup visitor.required_reads,
        writes |-> visitor.writes]

analyze_cell(cell) ==
    IF cell.cell_type = "sql"
    THEN [reads |-> {},
          writes |-> {IF cell.as_var /= None THEN cell.as_var ELSE "_sql_" \o cell.id}]
    ELSE analyze_python_code(cell.code)

\* ------------------------------------------------------------------------
\* dependency.py : graph builder
\* ------------------------------------------------------------------------

CellIds(cs) == {cs[i].id : i \in 1..Len(cs)}

IdSeq(cs) == [i \in 1..Len(cs) |-> cs[i].id]

\* var_to_cell: the cells are taken in list order and each one overwrites
\* the entries of the names it writes
RECURSIVE VarToCell(_, _, _)
VarToCell(cs, i, map) ==
    IF i > Len(cs) THEN map
    ELSE LET writes == analyze_cell(cs[i]).writes
         IN VarToCell(cs, i + 1,
                      [var \in DOMAIN map \cup writes |->
                         IF var \in writes THEN cs[i].id ELSE map[var]])

RECURSIVE VarToFirstCell(_, _, _)
VarToFirstCell(cs, i, map) ==
    IF i > Len(cs) THEN map
    ELSE LET writes == analyze_cell(cs[i]).writes
         IN VarToFirstCell(cs, i + 1,
                           [var \in DOMAIN map \cup writes |->
                              IF var \in DOMAIN map THEN map[var] ELSE cs[i].id])

var_to_cell_first(cs) == VarToFirstCell(cs, 1, [var \in {} |-> None])

var_to_cell(cs) == VarToCell(cs, 1, [var \in {} |-> None])

find_cell_by_index(cs, cid) == CHOOSE i \in 1..Len(cs) : cs[i].id = cid

\* find_cell_by_id: the cell, or None
find_cell_by_id(cs, cid) ==
    IF cid \in CellIds(cs) THEN cs[find_cell_by_index(cs, cid)]
    ELSE [id |-> None, code |-> <<>>, cell_type |-> None, as_var |-> None]

\* the writer kept as upstream cell when it is the cell itself
build_dependency_graph_self(cs) ==
    LET v2c == var_to_cell(cs)
    IN [cid \in CellIds(cs) |->
          LET analysis == analyze_cell(cs[find_cell_by_index(cs, cid)])
          IN {v2c[var] : var \in {r \in analysis.reads : r \in DOMAIN v2c}}]

build_dependency_graph(cs) ==
    LET v2c == var_to_cell(cs)
    IN [cid \in CellIds(cs) |->
          LET analysis == analyze_cell(cs[find_cell_by_index(cs, cid)])
          IN {v2c[var] : var \in {r \in analysis.reads : r \in DOMAIN v2c}} \ {cid}]

RECURSIVE SetToSeq(_)
SetToSeq(S) ==
    IF S = {} THEN <<>>
    ELSE LET e == CHOOSE m \in S : TRUE IN <<e>> \o SetToSeq(S \ {e})

\* the graph with its edges in both directions
InvertBoth(graph) ==
    [dep \in DOMAIN graph |-> {cid \in DOMAIN graph : dep \in graph[cid]} \cup graph[dep]]

\* downstream: the graph inverted (producer -> consumers)
Invert(graph) == [dep \in DOMAIN graph |-> {cid \in DOMAIN graph : dep \in graph[cid]}]

DownstreamOf(downstream, cid) == IF cid \in DOMAIN downstream THEN downstream[cid] ELSE {}

\* the loop left after the first cell popped
BfsLoopFirst(downstream, queue, result) ==
    IF queue = <<>> THEN result ELSE result \cup {Head(queue)}

\* the BFS loop: pop the head of the queue, add it to the result if new
\* and append its consumers
RECURSIVE BfsLoop(_, _, _)
BfsLoop(downstream, queue, result) ==
    IF queue = <<>> THEN result
    ELSE LET current == Head(queue)
         IN IF current \notin result
            THEN BfsLoop(downstream,
                         Tail(queue) \o SetToSeq(DownstreamOf(downstream, current)),
                         result \cup {current})
            ELSE BfsLoop(downstream, Tail(queue), result)

\* only the direct consumers, the queue never extended
get_downstream_direct(graph, cell_id) == DownstreamOf(Invert(graph), cell_id)

get_downstream_cells(graph, cell_id) ==
    LET downstream == Invert(graph)
    IN BfsLoop(downstream, SetToSeq(DownstreamOf(downstream, cell_id)), {})

\* topological_sort: every list the depth-first visit can return, over
\* all iteration orders of cell_ids and of the upstream sets
Subgraph(graph, cell_ids) ==
    [cid \in DOMAIN graph \cap cell_ids |-> graph[cid] \cap cell_ids]

RECURSIVE VisitDeps(_, _, _)

\* the node appended on entry, before its upstream nodes
visit_first(subgraph, node, st) ==
    IF node \in st.temp_visited \/ node \in st.visited THEN {st}
    ELSE LET entered == [result |-> Append(st.result, node),
                         visited |-> st.visited,
                         temp_visited |-> st.temp_visited \cup {node}]
             deps == IF node \in DOMAIN subgraph THEN subgraph[node] ELSE {}
         IN { [result |-> s.result,
               visited |-> s.visited \cup {node},
               temp_visited |-> s.temp_visited \ {node}]
              : s \in VisitDeps(subgraph, deps, entered) }

RECURSIVE visit(_, _, _)
visit(subgraph, node, st) ==
    IF node \in st.temp_visited \/ node \in st.visited THEN {st}
    ELSE LET entered == [st EXCEPT !.temp_visited = @ \cup {node}]
             deps == IF node \in DOMAIN subgraph THEN subgraph[node] ELSE {}
         IN { [result |-> Append(s.result, node),
               visited |-> s.visited \cup {node},
               temp_visited |-> s.temp_visited \ {node}]
              : s \in VisitDeps(subgraph, deps, entered) }

\* a marked node returns from visit at once, so only the unmarked ones
\* of the set are branched on
Unmarked(remaining, st) == remaining \ (st.visited \cup st.temp_visited)

VisitDeps(subgraph, remaining, st) ==
    IF Unmarked(remaining, st) = {} THEN {st}
    ELSE UNION { UNION { VisitDeps(subgraph, remaining \ {dep}, s)
                         : s \in visit(subgraph, dep, st) }
                 : dep \in Unmarked(remaining, st) }

RECURSIVE VisitAll(_, _, _)
VisitAll(subgraph, remaining, st) ==
    IF Unmarked(remaining, st) = {} THEN {st}
    ELSE UNION { UNION { VisitAll(subgraph, remaining \ {cid}, s)
                         : s \in visit(subgraph, cid, st) }
                 : cid \in Unmarked(remaining, st) }

\* a sort that returns no cell
topological_sort_none(graph, cell_ids) == { <<>> }

topological_sort(graph, cell_ids) ==
    { s.result : s \in VisitAll(Subgraph(graph, cell_ids), cell_ids,
                                [result |-> <<>>, visited |-> {}, temp_visited |-> {}]) }

\* detect_cycle: three-colour depth-first search; the nodes are taken in
\* the order of the graph's keys (the list order), the upstream set of a
\* node in any order.  <<>> stands for None.
WHITE == "white"
GRAY == "gray"
BLACK == "black"

\* the parent walk left out
WalkParentsNone(parent, neighbor, current, cycle) == cycle

\* cycle = [neighbor, node], then the parents of node up to neighbor
RECURSIVE WalkParents(_, _, _, _)
WalkParents(parent, neighbor, current, cycle) ==
    IF parent[current] /= None /\ parent[current] /= neighbor
    THEN WalkParents(parent, neighbor, parent[current], Append(cycle, parent[current]))
    ELSE cycle

SetColor(st, node, c) ==
    [color |-> [m \in DOMAIN st.color |-> IF m = node THEN c ELSE st.color[m]],
     parent |-> st.parent]
SetParent(st, node, p) ==
    [color |-> st.color,
     parent |-> [m \in DOMAIN st.parent |-> IF m = node THEN p ELSE st.parent[m]]]

RECURSIVE dfs(_, _, _)
RECURSIVE DfsNeighbors(_, _, _, _)

dfs(graph, node, st) ==
    DfsNeighbors(graph, node, graph[node], SetColor(st, node, GRAY))

\* a neighbor that is not a key of the graph, or is BLACK, is passed over,
\* so only the GRAY and WHITE ones of the set are branched on
Pending(remaining, st) ==
    {n \in remaining : n \in DOMAIN st.color /\ st.color[n] /= BLACK}

DfsNeighbors(graph, node, remaining, st) ==
    IF Pending(remaining, st) = {}
    THEN {[cycle |-> <<>>, st |-> SetColor(st, node, BLACK)]}
    ELSE UNION {
           IF st.color[neighbor] = GRAY
           THEN {[cycle |-> WalkParents(st.parent, neighbor, node, <<neighbor, node>>),
                  st |-> st]}
           ELSE UNION {
                  IF r.cycle /= <<>> THEN {r}
                  ELSE DfsNeighbors(graph, node, remaining \ {neighbor}, r.st)
                  : r \in dfs(graph, neighbor, SetParent(st, neighbor, node)) }
           : neighbor \in Pending(remaining, st) }

RECURSIVE DetectLoop(_, _, _, _)
DetectLoop(graph, nodes, i, st) ==
    IF i > Len(nodes) THEN {<<>>}
    ELSE IF st.color[nodes[i]] = WHITE
    THEN UNION { IF r.cycle /= <<>> THEN {r.cycle}
                 ELSE DetectLoop(graph, nodes, i + 1, r.st)
                 : r \in dfs(graph, nodes[i], st) }
    ELSE DetectLoop(graph, nodes, i + 1, st)

detect_cycle(graph, nodes) ==
    DetectLoop(graph, nodes, 1,
               [color |-> [n \in DOMAIN graph |-> WHITE],
                parent |-> [n \in DOMAIN graph |-> None]])

\* get_execution_order: every (order, cycle) pair the call can return
get_execution_order(cs, changed_cell_id) ==
    LET graph == build_dependency_graph(cs)
        cycles == detect_cycle(graph, IdSeq(cs))
        to_execute == get_downstream_cells(graph, changed_cell_id) \cup {changed_cell_id}
    IN { [order |-> <<>>, cycle |-> c] : c \in cycles \ {<<>>} }
       \cup (IF <<>> \in cycles
             THEN { [order |-> o, cycle |-> <<>>] : o \in topological_sort(graph, to_execute) }
             ELSE {})

\* ------------------------------------------------------------------------
\* executor.py
\* ------------------------------------------------------------------------

NoError == <<>>

ExecutionResult(success, error, traceback) ==
    [success |-> success, stdout |-> "", result |-> None, result_type |-> "text",
     error |-> error, error_traceback |-> traceback]

\* the namespace holds no user binding after construction and after reset
EmptyNamespace == [n \in {} |-> 0]

Bound(ns, names) == names \subseteq DOMAIN ns

\* a bound name keeps its binding
BindOnce(ns, name, value) ==
    [n \in DOMAIN ns \cup {name} |-> IF n \in DOMAIN ns THEN ns[n] ELSE value]

Bind(ns, name, value) ==
    [n \in DOMAIN ns \cup {name} |-> IF n = name THEN value ELSE ns[n]]

\* every name removed
UnbindAll(ns, names) == [n \in {} |-> 0]

\* no name removed
UnbindNone(ns, names) == ns

Unbind(ns, names) == [n \in DOMAIN ns \ names |-> ns[n]]

\* what exec raises when the exception is not an Exception
SystemExit == <<"SystemExit">>

\* exec(code, namespace): the statements run in turn; a load of an unbound
\* name raises NameError, 1/0 raises ZeroDivisionError and raise SystemExit
\* raises SystemExit, leaving the bindings made so far.
RECURSIVE ExecBody(_, _, _)
ExecBody(code, i, ns) ==
    IF i > Len(code) THEN [raised |-> NoError, namespace |-> ns]
    ELSE LET s == code[i]
             needed == IF s.op = "aug" THEN {s.target} \cup s.loads ELSE s.loads
         IN IF s.op = "div0"
            THEN [raised |-> <<"division by zero">>, namespace |-> ns]
            ELSE IF s.op = "exit"
            THEN [raised |-> SystemExit, namespace |-> ns]
            ELSE IF ~Bound(ns, needed)
            THEN [raised |-> <<"name is not defined">>, namespace |-> ns]
            ELSE ExecBody(code, i + 1,
                          Bind(ns, s.target, Sat(s.const + SumOver(ns, needed))))

\* _render_result of a number: its repr, as text
_render_result(value) == [result |-> ToString(value), result_type |-> "text"]

\* escaped: the exception is not caught by except Exception and leaves the
\* call
_execute_python_cell(cell, ns) ==
    IF cell.code = <<>>
    THEN [result |-> ExecutionResult(TRUE, NoError, None), namespace |-> ns,
          escaped |-> FALSE]
    ELSE LET run == IF Unparsable(cell.code)
                    THEN [raised |-> <<"invalid syntax">>, namespace |-> ns]
                    ELSE ExecBody(cell.code, 1, ns)
         IN IF run.raised = NoError
            THEN IF "_result" \in DOMAIN run.namespace
                 THEN LET rendered == _render_result(run.namespace["_result"])
                      IN [result |-> [ExecutionResult(TRUE, NoError, None)
                                         EXCEPT !.result = rendered.result,
                                                !.result_type = rendered.result_type],
                          namespace |-> Unbind(run.namespace, {"_result"}),
                          escaped |-> FALSE]
                 ELSE [result |-> ExecutionResult(TRUE, NoError, None),
                       namespace |-> run.namespace, escaped |-> FALSE]
            ELSE [result |-> [ExecutionResult(FALSE, run.raised, "traceback")
                                 EXCEPT !.result_type = "error"],
                  namespace |-> run.namespace,
                  escaped |-> run.raised = SystemExit]

execute_cell(cell, ns) ==
    IF cell.cell_type = "sql"
    THEN [result |-> ExecutionResult(FALSE,
                       <<"SQL cells must be executed through the database module">>, None),
          namespace |-> ns, escaped |-> FALSE]
    ELSE _execute_python_cell(cell, ns)

\* main.execute_sql_cell with a connected database: the rows are bound to
\* the cell's as name and rendered
execute_sql_cell(cell, ns) ==
    LET var_name == IF cell.as_var /= None THEN cell.as_var ELSE "_sql_" \o cell.id
    IN [result |-> [ExecutionResult(TRUE, NoError, None)
                       EXCEPT !.result = "rows", !.result_type = "html"],
        namespace |-> Bind(ns, var_name, 1),
        escaped |-> FALSE]

\* the sql_executor argument of run_cell and run_all_cells
SqlExecutors(cs) ==
    IF \E i \in 1..Len(cs) : cs[i].cell_type = "sql"
    THEN {None, "execute_sql_cell"}
    ELSE {None}

\* ------------------------------------------------------------------------
\* parser.py : notebook text
\* ------------------------------------------------------------------------

\* a key that is not in the dictionary parse_marker returns
Absent == "absent"

\* A line of a notebook text: its leading whitespace, then a cell marker
\* "# %% [id: .., type: .., as: ..]", some code, or nothing.
MarkerLine(indent, id, type, as) ==
    [indent |-> indent, kind |-> "marker", id |-> id, type |-> type, as |-> as,
     text |-> ""]

CodeLine(indent, text) ==
    [indent |-> indent, kind |-> "code", id |-> Absent, type |-> Absent,
     as |-> Absent, text |-> text]

BlankLine == CodeLine(0, "")

IsBlank(line) == line.kind = "code" /\ line.text = ""

\* the lines notebook texts are made of
Lines ==
    { BlankLine,
      CodeLine(0, "x = 1"),
      CodeLine(1, "y = x"),
      MarkerLine(0, "a", Absent, Absent),
      MarkerLine(0, "b", "sql", "df"),
      MarkerLine(0, Absent, "sql", Absent),
      MarkerLine(0, "a", Absent, ""),
      MarkerLine(1, "b", Absent, Absent) }

\* content.split('\n') of every notebook text of at most max_lines lines
Texts(max_lines) == UNION { [1..n -> Lines] : n \in 0..max_lines }

\* CELL_MARKER_PATTERN.match(line): the pattern is anchored at the first
\* character of the line
IsMarker(line) == line.kind = "marker" /\ line.indent = 0

\* str.strip of the joined lines: the blank lines at both ends go, and so
\* does the leading whitespace of the first line left
RECURSIVE lstrip(_)
lstrip(ls) ==
    IF ls = <<>> THEN <<>>
    ELSE IF IsBlank(Head(ls)) THEN lstrip(Tail(ls))
    ELSE <<[Head(ls) EXCEPT !.indent = 0]>> \o Tail(ls)

RECURSIVE rstrip(_)
rstrip(ls) ==
    IF ls = <<>> THEN <<>>
    ELSE IF IsBlank(ls[Len(ls)]) THEN rstrip(SubSeq(ls, 1, Len(ls) - 1))
    ELSE ls

strip(ls) == rstrip(lstrip(ls))

\* the n-th identifier generate_cell_id draws
generate_cell_id(n) == IdPool[n]

\* parse_marker and the three marker_data.get of parse_notebook; n
\* identifiers were generated before
MarkerCell(line, n) ==
    [id |-> IF line.id = Absent THEN generate_cell_id(n + 1) ELSE line.id,
     code |-> <<>>,
     cell_type |-> IF line.type = Absent THEN "python" ELSE line.type,
     as_var |-> IF line.as = Absent THEN None ELSE line.as]

\* the cell in progress, if any, gets its code and joins the list;
\* current is <<>> for None
SaveCell(cs, current, current_code_lines) ==
    IF current = <<>> THEN cs
    ELSE Append(cs, [current[1] EXCEPT !.code = strip(current_code_lines)])

\* the loop over the lines
RECURSIVE ParseLines(_, _, _, _, _)
ParseLines(lines, cs, current, current_code_lines, n) ==
    IF lines = <<>> THEN SaveCell(cs, current, current_code_lines)
    ELSE LET line == Head(lines)
         IN IF IsMarker(line)
            THEN ParseLines(Tail(lines), SaveCell(cs, current, current_code_lines),
                            <<MarkerCell(line, n)>>, <<>>,
                            IF line.id = Absent THEN n + 1 ELSE n)
            ELSE IF current /= <<>>
            THEN ParseLines(Tail(lines), cs, current, Append(current_code_lines, line), n)
            ELSE ParseLines(Tail(lines), cs, current, current_code_lines, n)

\* parse_notebook when n identifiers were generated before the call
parse_notebook(content, n) == ParseLines(content, <<>>, <<>>, <<>>, n)

\* the number of identifiers parse_notebook generates for content
Generated(content) ==
    Cardinality({i \in 1..Len(content) : IsMarker(content[i]) /\ content[i].id = Absent})

\* serialize_cell: the marker line with id, the type unless python and
\* as unless empty or None, then the code (one empty line for empty code)
serialize_cell(cell) ==
    <<MarkerLine(0, cell.id,
                 IF cell.cell_type /= "python" THEN cell.cell_type ELSE Absent,
                 IF cell.as_var \notin {None, ""} THEN cell.as_var ELSE Absent)>>
    \o (IF cell.code = <<>> THEN <<BlankLine>> ELSE cell.code)

\* '\n\n'.join of the serialized cells
RECURSIVE JoinCells(_)
JoinCells(cs) ==
    IF Len(cs) = 1 THEN serialize_cell(cs[1])
    ELSE serialize_cell(cs[1]) \o <<BlankLine>> \o JoinCells(Tail(cs))

\* serialize_notebook, as the lines of the text it returns
serialize_notebook(cs) ==
    IF cs = <<>> THEN <<BlankLine>> ELSE JoinCells(cs) \o <<BlankLine>>

\* ------------------------------------------------------------------------
\* reactor.py and main.py : state
\* ------------------------------------------------------------------------

VARIABLES
    cells,          \* Reactor.cells, the same list object as main.cells
    cell_states,    \* Reactor.cell_states: id -> CellState
    namespace,      \* Executor.namespace without the seeded bindings
    pc,             \* position of the running call: idle, roots, loop, exec
    call,           \* the run in progress or last completed, NoCall after any other operation
    ret,            \* what the last completed call returned
    order,          \* run_cell: the ids of order not yet taken by the loop
    failed_cells,   \* run_cell: failed_cells
    results,        \* run_cell: results, as the ids of the appended states
    in_all,         \* TRUE while run_all_cells is the caller of run_cell
    root_cells,     \* run_all_cells: the roots not yet taken by the loop
    executed,       \* run_all_cells: executed
    all_results,    \* run_all_cells: all_results, as ids
    events,         \* what the status callback received during the call
    dispatched,     \* the cells handed to an executor by the run in progress or the last run
    next_id,        \* index in IdPool of the next generated id
    edits,          \* list-changing operations so far
    cleared         \* ids whose state clear_cell_state removed since set_cells

vars == <<cells, cell_states, namespace, pc, call, ret, order, failed_cells,
          results, in_all, root_cells, executed, all_results, events,
          dispatched, next_id, edits, cleared>>

runvars == <<order, failed_cells, results>>
allvars == <<in_all, root_cells, executed, all_results>>

\* a CellState created with the status of a cell being executed
NewCellStateRunning ==
    [status |-> RUNNING, output |-> None, output_type |-> "text", stdout |-> "",
     error |-> NoError, error_traceback |-> None, blocked_by |-> None]

NewCellState ==
    [status |-> IDLE, output |-> None, output_type |-> "text", stdout |-> "",
     error |-> NoError, error_traceback |-> None, blocked_by |-> None]

Returned(ids) == [kind |-> "list", ids |-> ids]
Raised == [kind |-> "KeyError", ids |-> <<>>]
NoReturn == [kind |-> "none", ids |-> <<>>]

\* SystemExit raised by a cell's code leaves run_cell and run_all_cells
RaisedExit == [kind |-> "SystemExit", ids |-> <<>>]

Call(op, arg) == [op |-> op, arg |-> arg, sql_executor |-> None]

\* no run has been called since the list or the states were last set
NoCall == Call(None, None)

\* no state created for a new cell
set_cells_known(states, cs) == [cid \in CellIds(cs) \cap DOMAIN states |-> states[cid]]

\* Reactor.set_cells: the state map after installing the list cs
set_cells(states, cs) ==
    [cid \in CellIds(cs) |-> IF cid \in DOMAIN states THEN states[cid] ELSE NewCellState]

\* Reactor.clear_cell_state
clear_cell_state(states, cid) == [c \in DOMAIN states \ {cid} |-> states[c]]

\* load_notebook at startup: parse the file, set_cells on the new Reactor
InitWith(notebooks) ==
    /\ \E nb \in notebooks :
         /\ cells = MkCells(nb)
         /\ next_id = Len(nb) + 1
    /\ cell_states = set_cells(<<>>, cells)
    /\ namespace = EmptyNamespace
    /\ pc = "idle"
    /\ call = NoCall
    /\ ret = NoReturn
    /\ order = <<>>
    /\ failed_cells = {}
    /\ results = <<>>
    /\ in_all = FALSE
    /\ root_cells = <<>>
    /\ executed = {}
    /\ all_results = <<>>
    /\ events = <<>>
    /\ dispatched = <<>>
    /\ edits = 0
    /\ cleared = {}

Init == InitWith(Notebooks)

InitApi == InitWith(ApiNotebooks)

InitRun == InitWith(RunNotebooks)

\* ------------------------------------------------------------------------
\* reactor.py : Reactor.run_cell
\* ------------------------------------------------------------------------

Idle == pc = "idle"

HasStates(ids) == Range(ids) \subseteq DOMAIN cell_states

CycleError(cycle) == <<"Circular dependency detected">> \o cycle

\* only the first member of the cycle updated
MarkCycleFirst(states, cycle, i) ==
    IF cycle[1] \in DOMAIN states
    THEN [states EXCEPT ![cycle[1]].status = ERROR,
                        ![cycle[1]].error = CycleError(cycle)]
    ELSE states

\* the loop of _update_status calls of the cycle branch
RECURSIVE MarkCycle(_, _, _)
MarkCycle(states, cycle, i) ==
    IF i > Len(cycle) THEN states
    ELSE MarkCycle(
           IF cycle[i] \in DOMAIN states
           THEN [states EXCEPT ![cycle[i]].status = ERROR,
                               ![cycle[i]].error = CycleError(cycle)]
           ELSE states,
           cycle, i + 1)

RECURSIVE CycleEvents(_, _, _)
CycleEvents(states, cycle, i) ==
    IF i > Len(cycle) THEN <<>>
    ELSE (IF cycle[i] \in DOMAIN states
          THEN <<[cell_id |-> cycle[i], status |-> ERROR]>>
          ELSE <<>>) \o CycleEvents(states, cycle, i + 1)

\* run_all_cells: for r in results: keep the first occurrence of each id
RECURSIVE Accumulate(_, _, _)
Accumulate(acc, seen, rs) ==
    IF rs = <<>> THEN [all_results |-> acc, executed |-> seen]
    ELSE IF Head(rs) \notin seen
         THEN Accumulate(Append(acc, Head(rs)), seen \cup {Head(rs)}, Tail(rs))
         ELSE Accumulate(acc, seen, Tail(rs))

\* run_cell returns rs (or raises KeyError when ok is FALSE) to its caller:
\* the client, or the loop of run_all_cells
ReturnFromRunCell(ok, rs) ==
    IF ~ok
    THEN /\ ret' = Raised
         /\ pc' = "idle"
         /\ in_all' = FALSE
         /\ root_cells' = <<>>
         /\ executed' = {}
         /\ all_results' = <<>>
    ELSE IF in_all
    THEN LET acc == Accumulate(all_results, executed, rs)
         IN /\ all_results' = acc.all_results
            /\ executed' = acc.executed
            /\ pc' = "roots"
            /\ UNCHANGED <<ret, in_all, root_cells>>
    ELSE /\ ret' = Returned(rs)
         /\ pc' = "idle"
         /\ UNCHANGED allvars

\* lines 105-120: the execution order, the cycle branch, the locals
EnterRunCell(cid, evs) ==
    \E eo \in get_execution_order(cells, cid) :
        IF eo.cycle /= <<>>
        THEN /\ cell_states' = MarkCycle(cell_states, eo.cycle, 1)
             /\ events' = evs \o CycleEvents(cell_states, eo.cycle, 1)
             /\ ReturnFromRunCell(HasStates(eo.cycle), eo.cycle)
             /\ UNCHANGED runvars
        ELSE /\ order' = eo.order
             /\ failed_cells' = {}
             /\ results' = <<>>
             /\ pc' = "loop"
             /\ events' = evs
             /\ UNCHANGED <<cell_states, ret, allvars>>

RunCell(cid) ==
    /\ Idle
    /\ \E ex \in SqlExecutors(cells) :
         call' = [Call("run_cell", cid) EXCEPT !.sql_executor = ex]
    /\ dispatched' = <<>>
    /\ EnterRunCell(cid, <<>>)
    /\ UNCHANGED <<cells, namespace, next_id, edits, cleared>>

\* graph.get(cid, set())
Upstream(graph, cid) == IF cid \in DOMAIN graph THEN graph[cid] ELSE {}

\* for dep in upstream_deps: if dep in failed_cells
BlockingCellsNone(cid) == {}

BlockingCells(cid) == Upstream(build_dependency_graph(cells), cid) \cap failed_cells

\* find_cell_by_id returns a cell
CellFoundAlways(cs, cid) == TRUE

CellFound(cs, cid) == cid \in CellIds(cs)

\* line 189: the loop is over
RunCellReturn ==
    /\ pc = "loop"
    /\ order = <<>>
    /\ ReturnFromRunCell(TRUE, results)
    /\ failed_cells' = {}
    /\ results' = <<>>
    /\ UNCHANGED <<cells, cell_states, namespace, call, order, events,
                   dispatched, next_id, edits, cleared>>

\* lines 123-125: the id is not in the cell list
SkipMissingCell ==
    /\ pc = "loop"
    /\ order /= <<>>
    /\ ~CellFound(cells, Head(order))
    /\ order' = Tail(order)
    /\ UNCHANGED <<cells, cell_states, namespace, pc, call, ret, failed_cells,
                   results, allvars, events, dispatched, next_id, edits, cleared>>

\* lines 127-145: an upstream cell is in failed_cells
BlockCell ==
    /\ pc = "loop"
    /\ order /= <<>>
    /\ CellFound(cells, Head(order))
    /\ LET cid == Head(order)
       IN \E blocking_cell \in BlockingCells(cid) :
            /\ IF cid \in DOMAIN cell_states
               THEN /\ order' = Tail(order)
                    /\ failed_cells' = failed_cells \cup {cid}
                    /\ cell_states' =
                         [cell_states EXCEPT
                            ![cid].status = BLOCKED,
                            ![cid].blocked_by = blocking_cell,
                            ![cid].error = <<"Blocked by failed cell", blocking_cell>>]
                    /\ events' = Append(events, [cell_id |-> cid, status |-> BLOCKED])
                    /\ results' = Append(results, cid)
                    /\ UNCHANGED <<pc, ret, allvars>>
               ELSE /\ ReturnFromRunCell(FALSE, <<>>)
                    /\ order' = <<>>
                    /\ failed_cells' = {}
                    /\ results' = <<>>
                    /\ UNCHANGED <<cell_states, events>>
    /\ UNCHANGED <<cells, namespace, call, dispatched, next_id, edits, cleared>>

\* the status set to running without a call of the status callback
MarkRunningSilent ==
    /\ pc = "loop"
    /\ order /= <<>>
    /\ CellFound(cells, Head(order))
    /\ BlockingCells(Head(order)) = {}
    /\ LET cid == Head(order)
       IN IF cid \in DOMAIN cell_states
          THEN /\ cell_states' = [cell_states EXCEPT ![cid].status = RUNNING,
                                                     ![cid].blocked_by = None]
               /\ events' = events
          ELSE UNCHANGED <<cell_states, events>>
    /\ pc' = "exec"
    /\ UNCHANGED <<cells, namespace, call, ret, runvars, allvars, dispatched,
                   next_id, edits, cleared>>

\* lines 147-148: no upstream cell failed, the cell is marked running
MarkRunning ==
    /\ pc = "loop"
    /\ order /= <<>>
    /\ CellFound(cells, Head(order))
    /\ BlockingCells(Head(order)) = {}
    /\ LET cid == Head(order)
       IN IF cid \in DOMAIN cell_states
          THEN /\ cell_states' = [cell_states EXCEPT ![cid].status = RUNNING,
                                                     ![cid].blocked_by = None]
               /\ events' = Append(events, [cell_id |-> cid, status |-> RUNNING])
          ELSE UNCHANGED <<cell_states, events>>
    /\ pc' = "exec"
    /\ UNCHANGED <<cells, namespace, call, ret, runvars, allvars, dispatched,
                   next_id, edits, cleared>>

\* a sql cell without executor passed over as a success
NoExecutorSuccess == ExecutionResult(TRUE, NoError, None)

\* lines 155-159: the result made up for a sql cell when no sql_executor
\* was passed
NoExecutorResult ==
    ExecutionResult(FALSE, <<"No database connection configured">>, None)

\* the success update without the three fields set to None
success_update_keep(state, exec_result) ==
    [state EXCEPT !.status = SUCCESS,
                  !.output = exec_result.result,
                  !.output_type = exec_result.result_type,
                  !.stdout = exec_result.stdout]

\* lines 163-173: the keyword arguments of the _update_status call of a
\* successful execution
success_update(state, exec_result) ==
    [state EXCEPT !.status = SUCCESS,
                  !.output = exec_result.result,
                  !.output_type = exec_result.result_type,
                  !.stdout = exec_result.stdout,
                  !.error = NoError,
                  !.error_traceback = None,
                  !.blocked_by = None]

\* lines 150-187: the cell is executed and its state updated
ExecuteCell ==
    /\ pc = "exec"
    /\ LET cid == Head(order)
           cell == find_cell_by_id(cells, cid)
           done == IF cell.cell_type = "sql"
                   THEN IF call.sql_executor /= None
                        THEN execute_sql_cell(cell, namespace)
                        ELSE [result |-> NoExecutorResult,
                              namespace |-> namespace, escaped |-> FALSE]
                   ELSE execute_cell(cell, namespace)
           exec_result == done.result
       IN /\ namespace' = done.namespace
          /\ dispatched' = Append(dispatched, cid)
          /\ IF done.escaped
             THEN /\ ret' = RaisedExit
                  /\ pc' = "idle"
                  /\ in_all' = FALSE
                  /\ root_cells' = <<>>
                  /\ executed' = {}
                  /\ all_results' = <<>>
                  /\ order' = <<>>
                  /\ failed_cells' = {}
                  /\ results' = <<>>
                  /\ UNCHANGED <<cell_states, events>>
             ELSE IF cid \in DOMAIN cell_states
             THEN /\ order' = Tail(order)
                  /\ failed_cells' = IF exec_result.success THEN failed_cells
                                     ELSE failed_cells \cup {cid}
                  /\ cell_states' =
                       IF exec_result.success
                       THEN [cell_states EXCEPT
                               ![cid] = success_update(@, exec_result)]
                       ELSE [cell_states EXCEPT
                               ![cid].status = ERROR,
                               ![cid].output = None,
                               ![cid].stdout = exec_result.stdout,
                               ![cid].error = exec_result.error,
                               ![cid].error_traceback = exec_result.error_traceback,
                               ![cid].blocked_by = None]
                  /\ events' = Append(events,
                                      [cell_id |-> cid,
                                       status |-> IF exec_result.success
                                                  THEN SUCCESS ELSE ERROR])
                  /\ results' = Append(results, cid)
                  /\ pc' = "loop"
                  /\ UNCHANGED <<ret, allvars>>
             ELSE /\ ReturnFromRunCell(FALSE, <<>>)
                  /\ order' = <<>>
                  /\ failed_cells' = {}
                  /\ results' = <<>>
                  /\ UNCHANGED <<cell_states, events>>
    /\ UNCHANGED <<cells, call, next_id, edits, cleared>>

\* ------------------------------------------------------------------------
\* reactor.py : Reactor.run_all_cells
\* ------------------------------------------------------------------------

RootCells(cs) ==
    LET graph == build_dependency_graph(cs)
        roots == SelectSeq(IdSeq(cs), LAMBDA cid : graph[cid] = {})
    IN IF roots = <<>> THEN <<cs[1].id>> ELSE roots

RunAllCells ==
    /\ Idle
    /\ \E ex \in SqlExecutors(cells) :
         call' = [Call("run_all_cells", None) EXCEPT !.sql_executor = ex]
    /\ events' = <<>>
    /\ dispatched' = <<>>
    /\ IF cells = <<>>
       THEN /\ ret' = Returned(<<>>)
            /\ UNCHANGED <<pc, allvars>>
       ELSE /\ root_cells' = RootCells(cells)
            /\ executed' = {}
            /\ all_results' = <<>>
            /\ in_all' = TRUE
            /\ pc' = "roots"
            /\ UNCHANGED ret
    /\ UNCHANGED <<cells, cell_states, namespace, runvars, next_id, edits, cleared>>

\* the loop over root_cells: a root already in executed is passed over,
\* any other is handed to run_cell
RunRoot ==
    /\ pc = "roots"
    /\ root_cells /= <<>>
    /\ IF Head(root_cells) \in executed
       THEN /\ root_cells' = Tail(root_cells)
            /\ UNCHANGED <<cell_states, pc, ret, runvars, in_all, executed,
                           all_results, events>>
       ELSE
       \E eo \in get_execution_order(cells, Head(root_cells)) :
         IF eo.cycle /= <<>>
         THEN /\ cell_states' = MarkCycle(cell_states, eo.cycle, 1)
              /\ events' = events \o CycleEvents(cell_states, eo.cycle, 1)
              /\ IF HasStates(eo.cycle)
                 THEN LET acc == Accumulate(all_results, executed, eo.cycle)
                      IN /\ all_results' = acc.all_results
                         /\ executed' = acc.executed
                         /\ root_cells' = Tail(root_cells)
                         /\ UNCHANGED <<pc, ret, in_all>>
                 ELSE /\ ret' = Raised
                      /\ pc' = "idle"
                      /\ in_all' = FALSE
                      /\ root_cells' = <<>>
                      /\ executed' = {}
                      /\ all_results' = <<>>
              /\ UNCHANGED runvars
         ELSE /\ order' = eo.order
              /\ root_cells' = Tail(root_cells)
              /\ failed_cells' = {}
              /\ results' = <<>>
              /\ pc' = "loop"
              /\ UNCHANGED <<cell_states, events, ret, in_all, executed, all_results>>
    /\ UNCHANGED <<cells, namespace, call, dispatched, next_id, edits, cleared>>

RunAllReturn ==
    /\ pc = "roots"
    /\ root_cells = <<>>
    /\ ret' = Returned(all_results)
    /\ pc' = "idle"
    /\ in_all' = FALSE
    /\ executed' = {}
    /\ all_results' = <<>>
    /\ UNCHANGED <<cells, cell_states, namespace, call, runvars, root_cells,
                   events, dispatched, next_id, edits, cleared>>

\* ------------------------------------------------------------------------
\* main.py : sync_status_callback, broadcast_status
\* ------------------------------------------------------------------------

\* the message of one status broadcast: the CellState as it is when the
\* message is built
broadcast_status(cell_id, state) == [type |-> "status", data |-> state]

\* sync_status_callback creates one broadcast task per callback, holding the
\* CellState object of the reactor, not a copy.  The endpoints run_cell and
\* run_all call the reactor without awaiting, so no task runs before the
\* call has returned; each task then builds its message from the object as
\* it is by then.  The messages sent for the callbacks of the last call:
Broadcasts ==
    [i \in 1..Len(events) |->
       broadcast_status(events[i].cell_id, cell_states[events[i].cell_id])]

\* ------------------------------------------------------------------------
\* reactor.py : Reactor.reset, set_cells, clear_cell_state
\* ------------------------------------------------------------------------

\* a reset that resets the CellStates and keeps the namespace
ResetStatesOnly ==
    /\ Idle
    /\ call' = Call("reset", None)
    /\ cell_states' = [cid \in DOMAIN cell_states |->
                         [cell_states[cid] EXCEPT !.status = IDLE,
                                                  !.output = None,
                                                  !.stdout = "",
                                                  !.error = NoError,
                                                  !.error_traceback = None,
                                                  !.blocked_by = None]]
    /\ events' = <<>>
    /\ ret' = NoReturn
    /\ UNCHANGED <<cells, namespace, pc, runvars, allvars, dispatched, next_id,
                   edits, cleared>>

Reset ==
    /\ Idle
    /\ call' = Call("reset", None)
    /\ namespace' = EmptyNamespace
    /\ cell_states' = [cid \in DOMAIN cell_states |->
                         [cell_states[cid] EXCEPT !.status = IDLE,
                                                  !.output = None,
                                                  !.stdout = "",
                                                  !.error = NoError,
                                                  !.error_traceback = None,
                                                  !.blocked_by = None]]
    /\ events' = <<>>
    /\ ret' = NoReturn
    /\ UNCHANGED <<cells, pc, runvars, allvars, dispatched, next_id, edits, cleared>>

\* a handler entered while a run is in progress
CanEditAnytime == edits < MaxEdits

CanEdit == Idle /\ edits < MaxEdits

\* cell_id of an update, delete or clear request: the first cell of the
\* list
EditTargets(cs) == IF cs = <<>> THEN {} ELSE {cs[1].id}

\* a client of the Reactor installs the list without its last cell
SetCells ==
    /\ CanEdit
    /\ cells /= <<>>
    /\ cells' = SubSeq(cells, 1, Len(cells) - 1)
    /\ cell_states' = set_cells(cell_states, cells')
    /\ call' = NoCall
    /\ cleared' = {}
    /\ edits' = edits + 1
    /\ events' = <<>>
    /\ dispatched' = <<>>
    /\ ret' = NoReturn
    /\ UNCHANGED <<namespace, pc, runvars, allvars, next_id>>

\* a client of the Reactor removes the state of one cell of the list
ClearCellState ==
    /\ CanEdit
    /\ \E cid \in EditTargets(cells) :
         /\ cell_states' = clear_cell_state(cell_states, cid)
         /\ cleared' = cleared \cup {cid}
         /\ call' = NoCall
    /\ edits' = edits + 1
    /\ events' = <<>>
    /\ dispatched' = <<>>
    /\ ret' = NoReturn
    /\ UNCHANGED <<cells, namespace, pc, runvars, allvars, next_id>>

\* ------------------------------------------------------------------------
\* main.py : create_new_cell, update_cell, delete_cell
\* ------------------------------------------------------------------------

\* list.insert(idx, e), idx counted from 0
Insert(cs, idx, e) == SubSeq(cs, 1, idx) \o <<e>> \o SubSeq(cs, idx + 1, Len(cs))

\* remove_cell_by_id
remove_cell_by_id(cs, cid) ==
    LET i == find_cell_by_index(cs, cid)
    IN SubSeq(cs, 1, i - 1) \o SubSeq(cs, i + 1, Len(cs))

Edited ==
    /\ call' = NoCall
    /\ edits' = edits + 1
    /\ events' = <<>>
    /\ dispatched' = <<>>
    /\ ret' = NoReturn
    /\ UNCHANGED <<pc, runvars, allvars>>

\* after_id of a create request: null, the empty string, or the first cell
AfterIds(cs) == {None, ""} \cup (IF cs = <<>> THEN {} ELSE {cs[1].id})

CreateCell ==
    /\ CanEdit
    /\ next_id <= Len(IdPool)
    /\ \E code \in CreateCodes, after_id \in AfterIds(cells) :
         LET new_cell == Cell(IdPool[next_id], code)
         IN /\ cells' = IF after_id = "" THEN Insert(cells, 0, new_cell)
                        ELSE IF after_id /= None
                        THEN Insert(cells, find_cell_by_index(cells, after_id), new_cell)
                        ELSE Append(cells, new_cell)
            /\ Edited
    /\ next_id' = next_id + 1
    /\ cell_states' = set_cells(cell_states, cells')
    /\ cleared' = {}
    /\ UNCHANGED namespace

UpdateCell ==
    /\ CanEdit
    /\ \E cid \in EditTargets(cells), code \in UpdateCodes :
         /\ cells' = [cells EXCEPT ![find_cell_by_index(cells, cid)].code = code]
         /\ Edited
    /\ cell_states' = set_cells(cell_states, cells')
    /\ cleared' = {}
    /\ UNCHANGED <<namespace, next_id>>

DeleteCell ==
    /\ CanEdit
    /\ \E cid \in EditTargets(cells) :
         LET cell == cells[find_cell_by_index(cells, cid)]
             variables_to_remove == analyze_cell(cell).writes
         IN /\ cells' = remove_cell_by_id(cells, cid)
            /\ namespace' = Unbind(namespace, variables_to_remove)
            /\ cell_states' = set_cells(clear_cell_state(cell_states, cid), cells')
            /\ Edited
    /\ cleared' = {}
    /\ UNCHANGED next_id

\* ------------------------------------------------------------------------
\* Specifications
\* ------------------------------------------------------------------------

\* the steps of the loop of run_cell
RunCellStep ==
    \/ RunCellReturn
    \/ SkipMissingCell
    \/ BlockCell
    \/ MarkRunning
    \/ ExecuteCell

RunStep ==
    \/ RunCellStep
    \/ RunRoot
    \/ RunAllReturn

Next ==
    \/ \E cid \in CellIds(cells) \cup {UnknownId} : RunCell(cid)
    \/ RunAllCells
    \/ RunStep
    \/ Reset
    \/ SetCells
    \/ CreateCell
    \/ UpdateCell
    \/ DeleteCell

Spec == Init /\ [][Next]_vars

\* the Reactor driven by a client that also calls clear_cell_state and
\* runs cells that leave the interpreter
NextApi == Next \/ ClearCellState

SpecApi == InitApi /\ [][NextApi]_vars

\* the Reactor on a cell list that is not edited.  run_cell is a
\* synchronous call of one thread: once called, the interpreter keeps
\* taking the steps of its loop, hence the weak fairness of RunCellStep; a
\* cell execution, one ExecuteCell step, returns.
NextRun ==
    \/ \E cid \in CellIds(cells) \cup {UnknownId} : RunCell(cid)
    \/ RunAllCells
    \/ RunStep
    \/ Reset

SpecRun == InitRun /\ [][NextRun]_vars /\ WF_vars(RunCellStep)

\* ------------------------------------------------------------------------
\* The functions of parser.py and dependency.py called on their own
\* ------------------------------------------------------------------------

\* the calls of parse_notebook: every text
ParseCalls(max_lines) ==
    { Call("parse_notebook", text) : text \in Texts(max_lines) }

\* the codes of the cell lists build_dependency_graph is called on
GraphCodes == { X1, XInc, XfromY, YfromX }

\* the calls of build_dependency_graph: every list of at most max_cells
\* cells over GraphCodes, with the ids parse_notebook generates
BuildCalls(max_cells) ==
    { Call("build_dependency_graph", MkCells(codes)) :
        codes \in UNION { [1..n -> GraphCodes] : n \in 0..max_cells } }

\* the graphs the graph functions are called on: the keys c1, c2, c3 in
\* this order, every upstream set of at most max_deps ids, a key (the node
\* itself included) or an id that is no key
NodeIds == {IdPool[1], IdPool[2], IdPool[3]}
NodeSeq == <<IdPool[1], IdPool[2], IdPool[3]>>
DepSets(max_deps) ==
    {S \in SUBSET (NodeIds \cup {UnknownId}) : Cardinality(S) <= max_deps}
Graphs(max_deps) == [NodeIds -> DepSets(max_deps)]

DetectCalls(max_deps) ==
    { Call("detect_cycle", graph) : graph \in Graphs(max_deps) }

DownstreamCalls(max_deps) ==
    { Call("get_downstream_cells", [graph |-> graph, cell_id |-> cell_id]) :
        graph \in Graphs(max_deps), cell_id \in NodeIds \cup {UnknownId} }

SortCalls(max_deps) ==
    { Call("topological_sort", [graph |-> graph, cell_ids |-> cell_ids]) :
        graph \in Graphs(max_deps), cell_ids \in SUBSET (NodeIds \cup {UnknownId}) }

\* the statements of the sources analyze_python_code is called on:
\* x = 1, y = x, x = x + len, x += 1, len += y
AnalyzeStmts ==
    { Assign("x", {}, 1), Assign("y", {"x"}, 0), Assign("x", {"x", "len"}, 0),
      AugAssign("x", {}, 1), AugAssign("len", {"y"}, 1) }

AnalyzeCalls(max_stmts) ==
    { Call("analyze_python_code", code) :
        code \in UNION { [1..n -> AnalyzeStmts] : n \in 0..max_stmts } }

LibCalls(max_lines, max_cells, max_deps) ==
    ParseCalls(max_lines) \cup BuildCalls(max_cells) \cup DetectCalls(max_deps)
        \cup DownstreamCalls(max_deps) \cup SortCalls(max_deps)

\* no Reactor is involved: call holds the function and its argument, ret
\* what it returned, pc is "call" until the first call has returned
InitLib ==
    /\ call \in LibCalls(MaxLines, MaxCells, MaxDeps) \cup AnalyzeCalls(MaxStmts)
    /\ pc = "call"
    /\ ret = NoReturn
    /\ cells = <<>>
    /\ next_id = 1
    /\ cell_states = set_cells(<<>>, cells)
    /\ namespace = EmptyNamespace
    /\ order = <<>>
    /\ failed_cells = {}
    /\ results = <<>>
    /\ in_all = FALSE
    /\ root_cells = <<>>
    /\ executed = {}
    /\ all_results = <<>>
    /\ events = <<>>
    /\ dispatched = <<>>
    /\ edits = 0
    /\ cleared = {}

\* what a library call leaves alone
LibFrame ==
    UNCHANGED <<cells, cell_states, namespace, runvars, allvars, events,
                dispatched, edits, cleared>>

\* parse_notebook(text) returns
ParseNotebook ==
    /\ pc = "call"
    /\ call.op = "parse_notebook"
    /\ ret' = [kind |-> "cells", value |-> parse_notebook(call.arg, next_id - 1)]
    /\ next_id' = next_id + Generated(call.arg)
    /\ pc' = "parsed"
    /\ UNCHANGED call
    /\ LibFrame

\* serialize_notebook is called on the cells parse_notebook returned
SerializeNotebook ==
    /\ pc = "parsed"
    /\ call' = Call("serialize_notebook", ret.value)
    /\ ret' = [kind |-> "text", value |-> serialize_notebook(ret.value)]
    /\ pc' = "serialized"
    /\ UNCHANGED next_id
    /\ LibFrame

\* parse_notebook is called on the text serialize_notebook returned
ParseAgain ==
    /\ pc = "serialized"
    /\ call' = Call("parse_notebook", ret.value)
    /\ ret' = [kind |-> "cells", value |-> parse_notebook(ret.value, next_id - 1)]
    /\ next_id' = next_id + Generated(ret.value)
    /\ pc' = "idle"
    /\ LibFrame

\* a call that is not followed by another returns
LibReturn(kind, value) ==
    /\ pc = "call"
    /\ ret' = [kind |-> kind, value |-> value]
    /\ pc' = "idle"
    /\ UNCHANGED <<call, next_id>>
    /\ LibFrame

BuildDependencyGraph ==
    /\ call.op = "build_dependency_graph"
    /\ LibReturn("graph", build_dependency_graph(call.arg))

DetectCycle ==
    /\ call.op = "detect_cycle"
    /\ \E cycle \in detect_cycle(call.arg, NodeSeq) : LibReturn("cycle", cycle)

GetDownstreamCells ==
    /\ call.op = "get_downstream_cells"
    /\ LibReturn("set", get_downstream_cells(call.arg.graph, call.arg.cell_id))

TopologicalSort ==
    /\ call.op = "topological_sort"
    /\ \E sorted \in topological_sort(call.arg.graph, call.arg.cell_ids) :
          LibReturn("list", sorted)

AnalyzePythonCode ==
    /\ call.op = "analyze_python_code"
    /\ LibReturn("analysis", analyze_python_code(call.arg))

NextLib ==
    \/ ParseNotebook
    \/ SerializeNotebook
    \/ ParseAgain
    \/ BuildDependencyGraph
    \/ DetectCycle
    \/ GetDownstreamCells
    \/ TopologicalSort
    \/ AnalyzePythonCode

SpecLib == InitLib /\ [][NextLib]_vars

\* ------------------------------------------------------------------------
\* Properties
\* ------------------------------------------------------------------------

\* the graph of the current cell list
Graph == build_dependency_graph(cells)

\* the cells with an upstream cell in S
Consumers(graph, S) == {d \in DOMAIN graph : graph[d] \cap S /= {}}

RECURSIVE Closure(_, _)
Closure(graph, S) ==
    LET T == S \cup Consumers(graph, S)
    IN IF T = S THEN S ELSE Closure(graph, T)

\* downstream(graph, cid): every cell reachable from cid along
\* producer -> consumer edges
DownstreamClosure(graph, cid) == Closure(graph, Consumers(graph, {cid}))

OnCycle(graph, cid) == cid \in DownstreamClosure(graph, cid)

Acyclic(graph) == \A cid \in DOMAIN graph : ~OnCycle(graph, cid)

Count(seq, e) == Cardinality({i \in 1..Len(seq) : seq[i] = e})

NoDuplicates(seq) == \A i, j \in 1..Len(seq) : i /= j => seq[i] /= seq[j]

\* a run_cell call of a client has returned (or raised)
RunCellDone == pc = "idle" /\ call.op = "run_cell"

\* a run_all_cells call has returned (or raised)
RunAllDone == pc = "idle" /\ call.op = "run_all_cells"

StatusOf(cid) == cell_states[cid].status

\* C1: on an acyclic cell list, run_cell(c.id) for a cell c of the list
\* returns the states of exactly {c.id} and the downstream closure of c.id,
\* each once, every cell after all of its upstream cells in that set.
C1_ReturnsDownstreamInOrder ==
    (RunCellDone /\ call.arg \in CellIds(cells) /\ Acyclic(Graph)) =>
        /\ ret.kind = "list"
        /\ Range(ret.ids) = {call.arg} \cup DownstreamClosure(Graph, call.arg)
        /\ NoDuplicates(ret.ids)
        /\ \A i, j \in 1..Len(ret.ids) :
             ret.ids[j] \in Graph[ret.ids[i]] => j < i

\* a run that returned a cell, a consumer of it and a consumer of both
C1_Witness ==
    /\ RunCellDone
    /\ call.arg \in CellIds(cells)
    /\ Acyclic(Graph)
    /\ Len(ret.ids) = 3
    /\ ret.ids[1] = call.arg
    /\ Graph[ret.ids[3]] = {ret.ids[1], ret.ids[2]}

\* C2: when a cell's execution fails within a run_cell call, no cell of
\* its downstream closure is dispatched in that run, each of them ends the
\* run blocked, and its blocked_by is one of its direct upstream cells that
\* ended the run in error or blocked.
C2_FailureBlocksDownstream ==
    RunCellDone =>
        \A f \in Range(dispatched) :
            (f \in DOMAIN cell_states /\ StatusOf(f) = ERROR) =>
                \A d \in DownstreamClosure(Graph, f) :
                    /\ d \notin Range(dispatched)
                    /\ d \in Range(ret.ids)
                    /\ StatusOf(d) = BLOCKED
                    /\ cell_states[d].blocked_by \in Graph[d] \cap Range(ret.ids)
                    /\ StatusOf(cell_states[d].blocked_by) \in {ERROR, BLOCKED}

\* a failed cell whose consumer is blocked by it and whose consumer's
\* consumer is blocked by the blocked cell
C2_Witness ==
    /\ RunCellDone
    /\ \E f \in Range(dispatched), d, e \in DOMAIN cell_states :
         /\ StatusOf(f) = ERROR
         /\ StatusOf(d) = BLOCKED /\ cell_states[d].blocked_by = f
         /\ StatusOf(e) = BLOCKED /\ cell_states[e].blocked_by = d

\* C3: during one run_all_cells call on an acyclic cell list every cell of
\* the list is dispatched for execution exactly once, no cell twice; the
\* one cell that is not dispatched is a cell that ends the call blocked by
\* a failed upstream cell.
C3_RunAllDispatchesEachCellOnce ==
    (RunAllDone /\ Acyclic(Graph)) =>
        \A cid \in CellIds(cells) :
            \/ Count(dispatched, cid) = 1
            \/ Count(dispatched, cid) = 0 /\ StatusOf(cid) = BLOCKED

\* C4: with the list [c1: counter = 0, c2: counter += 1] the graph makes c2
\* depend on c1, run_cell(c1) executes c1 then c2 and the environment ends
\* with counter = 1.
C4_AugAssignRequiresUpstream ==
    (RunCellDone /\ call.arg = "c1" /\ cells = MkCells(<<Counter0, IncCounter>>)) =>
        /\ "c1" \in Graph["c2"]
        /\ dispatched = <<"c1", "c2">>
        /\ "counter" \in DOMAIN namespace
        /\ namespace["counter"] = 1

\* the positions of the cells that write, and that read, the name n
Writers(cs, n) == {i \in 1..Len(cs) : n \in analyze_cell(cs[i]).writes}

Readers(cs, n) == {i \in 1..Len(cs) : n \in analyze_cell(cs[i]).reads}

Names(cs) ==
    UNION {analyze_cell(cs[i]).writes \cup analyze_cell(cs[i]).reads : i \in 1..Len(cs)}

\* the last writer of n in list order
LastWriter(cs, n) ==
    LET ws == Writers(cs, n)
    IN cs[CHOOSE i \in ws : \A j \in ws : j <= i].id

\* the names r reads whose last writer is the cell w
LastWriterOf(cs, w, r) ==
    {m \in analyze_cell(cs[r]).reads : Writers(cs, m) /= {} /\ LastWriter(cs, m) = cs[w].id}

\* for every name n written by several cells and every reader r of n:
\* r's upstream set holds the last writer of n unless that is r itself, and
\* holds an earlier writer of n only if that writer is the last writer of
\* another name r reads
LastWriterWins(cs, graph) ==
    \A r \in 1..Len(cs) : \A n \in analyze_cell(cs[r]).reads :
        LET ws == Writers(cs, n)
            last == LastWriter(cs, n)
            upstream == graph[cs[r].id]
        IN Cardinality(ws) >= 2 =>
               /\ last /= cs[r].id => last \in upstream
               /\ \A w \in ws :
                    (cs[w].id /= last /\ cs[w].id \in upstream)
                        => LastWriterOf(cs, w, r) \ {n} /= {}

\* the call that returned ran the cell at position w, an earlier writer of
\* n, and r is another cell that reads n
RanEarlierWriter(w, n, r) ==
    /\ RunCellDone
    /\ call.arg = cells[w].id
    /\ r /= w
    /\ w \in Writers(cells, n)
    /\ r \in Readers(cells, n)
    /\ Cardinality(Writers(cells, n)) >= 2
    /\ cells[w].id /= LastWriter(cells, n)
    /\ Acyclic(Graph)

\* the cells that read a name whose last writer is in S
LastWriterReaders(cs, S) ==
    {cs[r].id : r \in {q \in 1..Len(cs) :
                         \E w \in 1..Len(cs) :
                            cs[w].id \in S /\ w /= q /\ LastWriterOf(cs, w, q) /= {}}}

RECURSIVE ReachedByLastWrites(_, _)
ReachedByLastWrites(cs, S) ==
    LET T == S \cup LastWriterReaders(cs, S)
    IN IF T = S THEN S ELSE ReachedByLastWrites(cs, T)

\* C5 as stated: last writer wins in the graph, so running an earlier
\* writer of a name n does not re-run the readers of n.
C5_EarlierWriterRerunsNoReader ==
    /\ LastWriterWins(cells, Graph)
    /\ RunCellDone =>
         \A n \in Names(cells) : \A w, r \in 1..Len(cells) :
             RanEarlierWriter(w, n, r) => cells[r].id \notin Range(dispatched)

\* C5 amended: last writer wins in the graph, and running an earlier writer
\* of n re-runs a reader of n only when that reader is reached from the
\* writer through names whose last writer is the producing cell.
C5_LastWriterWins ==
    /\ LastWriterWins(cells, Graph)
    /\ RunCellDone =>
         \A n \in Names(cells) : \A w, r \in 1..Len(cells) :
             (RanEarlierWriter(w, n, r) /\ cells[r].id \in Range(dispatched))
                 => cells[r].id \in ReachedByLastWrites(cells, {cells[w].id})

\* an earlier writer was run and the reader of the name was left alone
C5_Witness ==
    \E n \in Names(cells) : \E w, r \in 1..Len(cells) :
        /\ RanEarlierWriter(w, n, r)
        /\ LastWriter(cells, n) \in Graph[cells[r].id]
        /\ cells[w].id \notin Graph[cells[r].id]
        /\ dispatched = <<cells[w].id>>

\* C6: in every reachable state a CellState's blocked_by is non-null if
\* and only if its status is blocked.
C6_BlockedByIffBlocked ==
    \A cid \in DOMAIN cell_states :
        cell_states[cid].blocked_by /= None <=> StatusOf(cid) = BLOCKED

\* C7 as stated: after any sequence of set_cells, clear_cell_state,
\* run_cell, run_all_cells, reset, create, update and delete the ids that
\* have a CellState are the ids of the cell list.
C7_StateIdsEqualCellIds == DOMAIN cell_states = CellIds(cells)

\* C7 amended: the ids that have a CellState are the ids of the cell list
\* less those clear_cell_state removed since the list was last installed.
C7_StateIdsEqualUnclearedCellIds == DOMAIN cell_states = CellIds(cells) \ cleared

\* clear_cell_state has removed the state of a cell of the list and a
\* later run has gone through
C7_Witness ==
    /\ cleared /= {}
    /\ cleared \subseteq CellIds(cells)
    /\ RunCellDone
    /\ ret.kind = "list"
    /\ ret.ids /= <<>>

\* C8: when the graph of the cell list contains a cycle, run_cell with any
\* id dispatches no cell, sets every member of the cycle detect_cycle
\* returns to error with the message listing that cycle, emits one event
\* for each of them and returns exactly those members' states.
C8_CycleBranch ==
    (RunCellDone /\ ~Acyclic(Graph)) =>
        /\ dispatched = <<>>
        /\ ret.kind = "list"
        /\ ret.ids \in detect_cycle(Graph, IdSeq(cells)) \ {<<>>}
        /\ \A i \in 1..Len(ret.ids) :
             /\ StatusOf(ret.ids[i]) = ERROR
             /\ cell_states[ret.ids[i]].error = CycleError(ret.ids)
        /\ events = [i \in 1..Len(ret.ids) |-> [cell_id |-> ret.ids[i], status |-> ERROR]]

\* a run on a list whose graph holds a cycle of three cells
C8_Witness ==
    /\ RunCellDone
    /\ ~Acyclic(Graph)
    /\ Len(ret.ids) = 3
    /\ Len(events) = 3

\* seq lists a cycle of the graph: distinct cells, each the upstream of the
\* next and the last the upstream of the first
IsCycle(graph, seq) ==
    /\ Len(seq) >= 2
    /\ NoDuplicates(seq)
    /\ \A i \in 1..Len(seq) :
         /\ seq[i] \in DOMAIN graph
         /\ seq[i] \in graph[seq[(i % Len(seq)) + 1]]

UnknownIdStep == call'.op = "run_cell" /\ call'.arg \notin CellIds(cells')

\* no CellState changed, no event, nothing executed, an empty list returned
NothingDone ==
    /\ cell_states' = cell_states
    /\ namespace' = namespace
    /\ events' = <<>>
    /\ dispatched' = <<>>
    /\ pc' = "idle" => ret' = Returned(<<>>)

\* C10 as stated: run_cell with an id that is not in the cell list returns
\* an empty list, changes no CellState, emits no event and executes
\* nothing, whatever the cell list is.
C10_UnknownIdDoesNothing == [][UnknownIdStep => NothingDone]_vars

\* C10 amended: the same, when the graph of the cell list has no cycle.
C10_UnknownIdDoesNothingIfAcyclic ==
    [][UnknownIdStep => (NothingDone \/ ~Acyclic(build_dependency_graph(cells')))]_vars

\* run_cell with an unknown id has returned on a non-empty acyclic list
C10_Witness ==
    /\ RunCellDone
    /\ call.arg \notin CellIds(cells)
    /\ cells /= <<>>
    /\ Acyclic(Graph)
    /\ ret = Returned(<<>>)

\* ------------------------------------------------------------------------
\* C11: in every reachable state of the Reactor, run_cell and
\* run_all_cells, once they are over, have returned a list of CellStates:
\* no exception leaves them.
C11_RunsNeverRaise == (RunCellDone \/ RunAllDone) => ret.kind = "list"

\* ------------------------------------------------------------------------
\* C12: right after reset, every CellState is idle with output, error,
\* error traceback and blocked_by empty and stdout the empty string, and
\* the environment holds no binding of an earlier execution or injection.
C12_ResetClearsEverything ==
    call.op = "reset" =>
        /\ \A cid \in DOMAIN cell_states :
             /\ cell_states[cid].status = IDLE
             /\ cell_states[cid].output = None
             /\ cell_states[cid].error = NoError
             /\ cell_states[cid].error_traceback = None
             /\ cell_states[cid].blocked_by = None
             /\ cell_states[cid].stdout = ""
        /\ namespace = EmptyNamespace

\* reset was called after a run that executed two cells or more and not
\* every cell of the list
C12_Witness ==
    /\ call.op = "reset"
    /\ Len(dispatched) >= 2
    /\ Len(dispatched) < Len(cells)

\* ------------------------------------------------------------------------
\* a step that is one call of set_cells and nothing else on the Reactor
SetCellsStep == SetCells \/ CreateCell \/ UpdateCell

\* the CellState of a cell that never ran
IsIdleState(st) ==
    /\ st.status = IDLE
    /\ st.output = None
    /\ st.stdout = ""
    /\ st.error = NoError
    /\ st.error_traceback = None
    /\ st.blocked_by = None

\* C13: set_cells(new_list) creates an idle CellState for every id of
\* new_list that had none, removes the CellState of every id that is not
\* in new_list, leaves the CellState of every retained id as it was, and
\* leaves the environment as it was.
C13_SetCellsFrame ==
    [][SetCellsStep =>
         /\ DOMAIN cell_states' = CellIds(cells')
         /\ \A cid \in CellIds(cells') \ DOMAIN cell_states :
              IsIdleState(cell_states'[cid])
         /\ \A cid \in CellIds(cells') \cap DOMAIN cell_states :
              cell_states'[cid] = cell_states[cid]
         /\ namespace' = namespace]_vars

\* set_cells has installed a list with a new cell, whose state is idle,
\* next to a cell that keeps the state of its execution
C13_Witness ==
    /\ call = NoCall
    /\ edits > 0
    /\ \E i \in 1..Len(cells) :
         /\ cells[i].code = <<>>
         /\ cells[i].id \in DOMAIN cell_states
         /\ IsIdleState(cell_states[cells[i].id])
    /\ \E cid \in DOMAIN cell_states : cell_states[cid].status \in {SUCCESS, ERROR, BLOCKED}
    /\ namespace /= EmptyNamespace

\* ------------------------------------------------------------------------
\* a step of a run_cell call on a cell of an acyclic list
AcyclicRunCellStep ==
    /\ call'.op = "run_cell"
    /\ call'.arg \in CellIds(cells')
    /\ Acyclic(build_dependency_graph(cells'))

\* the cells outside {c} and downstream(graph, c) for the call's argument c
OutsideOf(cs, cid) ==
    CellIds(cs) \ ({cid} \cup DownstreamClosure(build_dependency_graph(cs), cid))

\* the cells a step executes or whose CellState it changes, creates or
\* removes
TouchedBy ==
    {cid \in CellIds(cells') :
        \/ Len(dispatched') > Len(dispatched) /\ dispatched'[Len(dispatched')] = cid
        \/ (cid \in DOMAIN cell_states) /= (cid \in DOMAIN cell_states')
        \/ cid \in DOMAIN cell_states /\ cell_states'[cid] /= cell_states[cid]}

\* C14: run_cell(c) on an acyclic list neither executes nor changes the
\* CellState of any cell outside {c} and the downstream closure of c.
C14_RunCellFrame ==
    [][(call'.op = "run_cell" /\ TouchedBy \ {call'.arg} /= {} /\ AcyclicRunCellStep) =>
         TouchedBy \cap OutsideOf(cells', call'.arg) = {}]_vars

\* run_cell(c) has returned the states of the cells it ran, and a cell
\* outside {c} and its downstream closure keeps the result of an earlier run
C14_Witness ==
    /\ RunCellDone
    /\ call.arg \in CellIds(cells)
    /\ Acyclic(Graph)
    /\ ret.kind = "list"
    /\ Len(ret.ids) >= 2
    /\ \E cid \in OutsideOf(cells, call.arg) : StatusOf(cid) \in {SUCCESS, ERROR}

\* ------------------------------------------------------------------------
\* the status events of the cells of ids in turn: a blocked cell has one
\* blocked event, any other cell a running event and then the event of the
\* status it ended in
RECURSIVE EventsInOrder(_)
EventsInOrder(ids) ==
    IF ids = <<>> THEN <<>>
    ELSE LET cid == Head(ids)
             end == [cell_id |-> cid, status |-> StatusOf(cid)]
         IN (IF StatusOf(cid) = BLOCKED THEN <<end>>
             ELSE <<[cell_id |-> cid, status |-> RUNNING], end>>)
            \o EventsInOrder(Tail(ids))

\* C15: the status events of one run_cell call on an acyclic list are in
\* execution order: for each executed cell a running event and right
\* after it its success or error event, for each blocked cell one blocked
\* event and no running event, and all events of a cell before all events
\* of the cells after it in the execution order.
C15_EventsInExecutionOrder ==
    (RunCellDone /\ ret.kind = "list" /\ call.arg \in CellIds(cells) /\ Acyclic(Graph)) =>
        /\ events = EventsInOrder(ret.ids)
        /\ \A i \in 1..Len(ret.ids) : StatusOf(ret.ids[i]) \in {SUCCESS, ERROR, BLOCKED}

\* a run_cell call has reported an executed cell and a blocked cell
C15_Witness ==
    /\ RunCellDone
    /\ ret.kind = "list"
    /\ Acyclic(Graph)
    /\ \E i, j \in 1..Len(events) :
         /\ events[i].status = RUNNING
         /\ events[j].status = BLOCKED

\* ------------------------------------------------------------------------
\* the cells whose status a step changes
StatusChanged ==
    {cid \in DOMAIN cell_states \cap DOMAIN cell_states' :
        cell_states'[cid].status /= cell_states[cid].status}

\* the subscriber has been told of the status cid has after the step
Reported(cid) ==
    \E i \in 1..Len(events') :
        events'[i] = [cell_id |-> cid, status |-> cell_states'[cid].status]

\* C16: with the subscriber installed, every change of the status of a
\* CellState by an operation of the Reactor (run_cell, run_all_cells and
\* reset) is reported to the subscriber with the id of the cell.
C16_EveryStatusChangeReported == [][\A cid \in StatusChanged : Reported(cid)]_vars

\* ------------------------------------------------------------------------
\* the cells whose status is running
RunningCells == {cid \in DOMAIN cell_states : cell_states[cid].status = RUNNING}

\* C17: in every reachable state at most one cell has the status running,
\* whatever run_cell and run_all_cells calls were made.
C17_AtMostOneRunning == Cardinality(RunningCells) <= 1

\* ------------------------------------------------------------------------
\* the execution set of run_cell(cid): the cell and its downstream closure
\* on an acyclic list, nothing when the list has a cycle or no such cell
ExecutionSet(cs, cid) ==
    LET graph == build_dependency_graph(cs)
    IN IF cid \in CellIds(cs) /\ Acyclic(graph)
       THEN {cid} \cup DownstreamClosure(graph, cid)
       ELSE {}

\* run_cell has returned a list, and every cell of its execution set and
\* of the list has ended in success, error or blocked
ReturnedAllSettled ==
    /\ ret.kind = "list"
    /\ \A cid \in ExecutionSet(cells, call.arg) \cup Range(ret.ids) :
         StatusOf(cid) \in {SUCCESS, ERROR, BLOCKED}

\* C18: when every cell execution returns, every run_cell call returns,
\* whatever the cell list, and at its return every cell of its execution
\* set has the status success, error or blocked, none idle, running or
\* skipped.
C18_RunCellReturnsSettled ==
    /\ [](RunCellDone => ReturnedAllSettled)
    /\ (call.op = "run_cell") ~> RunCellDone

\* a run_cell call has returned with an executed and a blocked cell in its
\* execution set
C18_Witness ==
    /\ RunCellDone
    /\ ret.kind = "list"
    /\ \E c, d \in ExecutionSet(cells, call.arg) :
         /\ StatusOf(c) = ERROR
         /\ StatusOf(d) = BLOCKED

\* ------------------------------------------------------------------------
\* the sql cells a run has reached, that is, has not blocked
ReachedQueryCells ==
    {cid \in Range(dispatched) : find_cell_by_id(cells, cid).cell_type = "sql"}

\* C19: when run_cell reaches a sql cell and no sql_executor was passed,
\* the cell ends in error with the message 'No database connection
\* configured', counts as failed, and every cell downstream of it ends the
\* run blocked.
C19_NoExecutorFailsQueryCell ==
    (RunCellDone /\ ret.kind = "list" /\ call.sql_executor = None) =>
        \A cid \in ReachedQueryCells :
            /\ StatusOf(cid) = ERROR
            /\ cell_states[cid].error = <<"No database connection configured">>
            /\ \A d \in DownstreamClosure(Graph, cid) :
                 /\ d \in Range(ret.ids)
                 /\ d \notin Range(dispatched)
                 /\ StatusOf(d) = BLOCKED

\* run_cell without sql_executor has reached a sql cell that has a
\* downstream cell
C19_Witness ==
    /\ RunCellDone
    /\ ret.kind = "list"
    /\ call.sql_executor = None
    /\ \E cid \in ReachedQueryCells : DownstreamClosure(Graph, cid) /= {}

\* ------------------------------------------------------------------------
\* C20: after every execute_cell call, successful or failed, _result is
\* not bound in the environment, so no cell observes or renders a _result
\* that an earlier cell set.
C20_ResultNeverLeftBound == "_result" \notin DOMAIN namespace

\* ------------------------------------------------------------------------
\* C21: for every notebook text, parsing the serialization of its parsed
\* cells yields the same list of cells: same ids, kinds, as_var and source,
\* in the same order.
C21_ParseSerializeParse ==
    [][(call.op = "serialize_notebook" /\ call'.op = "parse_notebook") =>
         ret'.value = call.arg]_vars

\* ------------------------------------------------------------------------
\* build_dependency_graph has returned
BuildDone == pc = "idle" /\ call.op = "build_dependency_graph"

\* the cells of cs that read a name whose last writer they are
SelfReaders(cs) ==
    {i \in 1..Len(cs) :
        \E n \in analyze_cell(cs[i]).reads :
            Writers(cs, n) /= {} /\ LastWriter(cs, n) = cs[i].id}

\* C22: the graph build_dependency_graph returns has one entry per cell id
\* of the list, and the upstream set of a cell holds ids of other cells of
\* the list only, never its own, also when the cell reads a name it writes.
C22_UpstreamOfOtherCellsOnly ==
    BuildDone =>
        /\ DOMAIN ret.value = CellIds(call.arg)
        /\ \A cid \in DOMAIN ret.value :
             /\ ret.value[cid] \subseteq CellIds(call.arg)
             /\ cid \notin ret.value[cid]

\* the graph of a list with a cell that reads a name it is the last writer
\* of, and with a cell that has an upstream cell
C22_Witness ==
    /\ BuildDone
    /\ SelfReaders(call.arg) /= {}
    /\ \E cid \in DOMAIN ret.value : ret.value[cid] /= {}

\* ------------------------------------------------------------------------
\* detect_cycle has returned
DetectDone == pc = "idle" /\ call.op = "detect_cycle"

Distinct(seq) == \A i, j \in 1..Len(seq) : i /= j => seq[i] /= seq[j]

\* each id of the list is an upstream id of the next one, the last of the first
ClosesOnItself(graph, cycle) ==
    \A i \in 1..Len(cycle) :
        /\ cycle[i] \in DOMAIN graph
        /\ cycle[(i % Len(cycle)) + 1] \in DOMAIN graph
        /\ cycle[i] \in graph[cycle[(i % Len(cycle)) + 1]]

DownstreamDone == pc = "idle" /\ call.op = "get_downstream_cells"

\* C24 as stated: the returned set is the set of the cells that reach the
\* id through one or more dependency edges, and the id is never in it.
C24_DownstreamNeverHoldsTheId ==
    DownstreamDone =>
        /\ ret.value = DownstreamClosure(call.arg.graph, call.arg.cell_id)
        /\ call.arg.cell_id \notin ret.value

\* C24 amended: for an id that is a key of the graph the returned set is
\* the set of the cells that reach it through one or more dependency edges,
\* which holds the id itself exactly when the id lies on a cycle; for an
\* id that is no key the set is empty.
C24_DownstreamIsTheClosure ==
    DownstreamDone =>
        LET graph == call.arg.graph
            cell_id == call.arg.cell_id
        IN IF cell_id \in DOMAIN graph
           THEN /\ ret.value = DownstreamClosure(graph, cell_id)
                /\ cell_id \in ret.value <=> OnCycle(graph, cell_id)
           ELSE ret.value = {}

\* the downstream set of a cell on a cycle of three cells, and with it the
\* cell itself, two edges away from its direct consumer
C24_Witness ==
    /\ DownstreamDone
    /\ call.arg.cell_id \in ret.value
    /\ Cardinality(ret.value) = 3
    /\ Cardinality(Consumers(call.arg.graph, {call.arg.cell_id})) = 1

\* ------------------------------------------------------------------------
\* topological_sort is called, and has returned
SortCalled == pc = "call" /\ call.op = "topological_sort"
SortDone == pc = "idle" /\ call.op = "topological_sort"

\* every id of the list stands after the ids of its upstream set
UpstreamFirst(subgraph, sorted) ==
    \A i \in 1..Len(sorted) :
        sorted[i] \in DOMAIN subgraph =>
            \A dep \in subgraph[sorted[i]] :
                \E j \in 1..(i - 1) : sorted[j] = dep

\* C25: topological_sort returns, for every graph and subset of ids, a list
\* that holds each id of the subset exactly once and no other id; when the
\* graph restricted to the subset is acyclic, every id of the list stands
\* after all its upstream ids of the subset.
C25_SortedSubsetUpstreamFirst ==
    /\ SortCalled => topological_sort(call.arg.graph, call.arg.cell_ids) /= {}
    /\ SortDone =>
         LET subgraph == Subgraph(call.arg.graph, call.arg.cell_ids)
         IN /\ Range(ret.value) = call.arg.cell_ids
            /\ Distinct(ret.value)
            /\ Acyclic(subgraph) => UpstreamFirst(subgraph, ret.value)

\* the sorted list of a proper subset of the keys and an id that is no
\* key, the restricted graph acyclic and a cell standing after two
\* upstream cells, one of them the id that is no key
C25_Witness ==
    /\ SortDone
    /\ UnknownId \in call.arg.cell_ids
    /\ NodeIds \ call.arg.cell_ids /= {}
    /\ Acyclic(Subgraph(call.arg.graph, call.arg.cell_ids))
    /\ \E cid \in DOMAIN Subgraph(call.arg.graph, call.arg.cell_ids) :
          /\ UnknownId \in Subgraph(call.arg.graph, call.arg.cell_ids)[cid]
          /\ Cardinality(Subgraph(call.arg.graph, call.arg.cell_ids)[cid]) = 2

\* ------------------------------------------------------------------------
\* C26: the run is deterministic, whatever the iteration order of the sets:
\* for the cell list of the reactor every run_cell request has one
\* execution order (or one cycle to report), and a cell that is blocked has
\* one cell it can be blocked by, so that two calls with the same list,
\* outcomes and request show the same order, events and blocked_by.
C26_RunIsDeterministic ==
    /\ Idle => \A cid \in CellIds(cells) :
                  Cardinality(get_execution_order(cells, cid)) = 1
    /\ (pc = "loop" /\ order /= <<>>) =>
          Cardinality(BlockingCells(Head(order))) <= 1

\* ------------------------------------------------------------------------
\* C27: within one run_all_cells call a cell is dispatched to the executor
\* only after every one of its upstream cells was dispatched in that call.
C27_RunAllDispatchesUpstreamFirst ==
    [][(call.op = "run_all_cells" /\ dispatched' /= dispatched) =>
         Upstream(build_dependency_graph(cells), Head(order))
             \subseteq Range(dispatched)]_vars

\* ------------------------------------------------------------------------
\* run_all_cells has returned its list
RunAllReturned == Idle /\ call.op = "run_all_cells" /\ ret.kind = "list"

\* the position of the last dispatch of a cell, 0 when it was never dispatched
LastDispatch(cid) ==
    IF cid \in Range(dispatched)
    THEN CHOOSE i \in 1..Len(dispatched) :
           /\ dispatched[i] = cid
           /\ \A j \in (i + 1)..Len(dispatched) : dispatched[j] /= cid
    ELSE 0

\* C28: after run_all_cells on an acyclic list the last execution of every
\* executed cell came after the last execution of each of its upstream
\* cells.
C28_LastExecutionAfterUpstream ==
    (RunAllReturned /\ Acyclic(build_dependency_graph(cells))) =>
        \A cid \in Range(dispatched) :
            \A dep \in Upstream(build_dependency_graph(cells), cid) :
                LastDispatch(dep) < LastDispatch(cid)

\* ------------------------------------------------------------------------
\* a run requested through the facade has returned
RunReturned == Idle /\ call.op \in {"run_cell", "run_all_cells"}

\* C29: every status message sent to the WebSocket clients carries the
\* status the cell had at the transition that triggered it, so an executed
\* cell is announced as running before it is announced as success or error.
C29_MessageCarriesTransitionStatus ==
    RunReturned =>
        \A i \in 1..Len(events) :
            Broadcasts[i].data.status = events[i].status

\* ------------------------------------------------------------------------
\* the code cells of the list whose source does not parse
UnparsableCells(cs) ==
    {cs[i].id : i \in {j \in 1..Len(cs) :
                         cs[j].cell_type = "python" /\ Unparsable(cs[j].code)}}

AnalyzeDone == pc = "idle" /\ call.op = "analyze_python_code"

\* the names stored by the statements before statement i, and up to it
BoundBefore(code, i) == {code[j].target : j \in 1..(i - 1)}
BoundUpTo(code, i) == {code[j].target : j \in 1..i}

\* the targets of the augmented assignments not bound earlier in the source
RequiredReads(code) ==
    {code[i].target : i \in {j \in 1..Len(code) :
                               /\ code[j].op = "aug"
                               /\ code[j].target \notin BoundBefore(code, j)}}

\* the names loaded while not bound (the names of a value are loaded after
\* the target of their statement is stored), and the required reads
CollectedReads(code) ==
    UNION {code[i].loads \ BoundUpTo(code, i) : i \in 1..Len(code)}
        \cup RequiredReads(code)

CollectedWrites(code) == {code[i].target : i \in 1..Len(code)}

\* C31: the reads reported for a source are (collected reads minus the
\* built-in names minus the writes) united with the required reads, a name
\* being a required read exactly when it is the target of an augmented
\* assignment and was not bound earlier in the traversal of the source.
C31_ReadsFormula ==
    AnalyzeDone =>
        /\ ret.value.reads =
             ((CollectedReads(call.arg) \ common_builtins) \ CollectedWrites(call.arg))
                 \cup RequiredReads(call.arg)
        /\ ret.value.writes = CollectedWrites(call.arg)

\* a source with a required read that is also written, an augmented
\* assignment whose target was bound earlier, and a collected read dropped
\* because the source writes it later
C31_Witness ==
    /\ AnalyzeDone
    /\ RequiredReads(call.arg) \cap CollectedWrites(call.arg) /= {}
    /\ \E i \in 1..Len(call.arg) :
          call.arg[i].op = "aug" /\ call.arg[i].target \in BoundBefore(call.arg, i)
    /\ (CollectedReads(call.arg) \cap CollectedWrites(call.arg))
           \ ret.value.reads /= {}

\* ------------------------------------------------------------------------
\* the id of the cell a step removes from the list
DeletedIds == CellIds(cells) \ CellIds(cells')

\* C32: after the facade deletes a cell, the cell is absent from the list,
\* it has no CellState, every name its current source writes is absent from
\* the environment, and the states of the other cells are as they were.
C32_DeleteCellEffect ==
    [][DeleteCell =>
         /\ Cardinality(DeletedIds) = 1
         /\ \A cid \in DeletedIds :
              /\ cid \notin DOMAIN cell_states'
              /\ analyze_cell(find_cell_by_id(cells, cid)).writes
                     \cap DOMAIN namespace' = {}
         /\ DOMAIN cell_states' = CellIds(cells')
         /\ \A cid \in CellIds(cells') : cell_states'[cid] = cell_states[cid]]_vars

\* the first cell was deleted after a run: a remaining cell is in success
\* and reads a name that is no more bound
C32_Witness ==
    /\ Idle
    /\ edits = 1
    /\ cells /= <<>>
    /\ IdPool[1] \notin CellIds(cells)
    /\ \E i \in 1..Len(cells) :
          /\ cell_states[cells[i].id].status = SUCCESS
          /\ ~Bound(namespace, analyze_cell(cells[i]).reads)

C34_SuccessIsClean ==
    \A cid \in DOMAIN cell_states :
        StatusOf(cid) = SUCCESS =>
            /\ cell_states[cid].error = NoError
            /\ cell_states[cid].error_traceback = None
            /\ cell_states[cid].blocked_by = None

\* a cell that failed in an earlier run is in success while the cell that
\* was blocked by it is still to be run again
C34_Witness ==
    \E cid \in DOMAIN cell_states :
        /\ StatusOf(cid) = SUCCESS
        /\ \E d \in DOMAIN cell_states :
              /\ StatusOf(d) = BLOCKED
              /\ cell_states[d].blocked_by = cid

\* ------------------------------------------------------------------------
\* C35: a CellState in status error or blocked has no rendered output.
C35_FailedHasNoOutput ==
    \A cid \in DOMAIN cell_states :
        StatusOf(cid) \in {ERROR, BLOCKED} => cell_states[cid].output = None

\* ------------------------------------------------------------------------
\* the step of run_cell that hands a cell to the executor
Dispatch == ExecuteCell /\ Len(dispatched') = Len(dispatched) + 1

\* the upstream cells of the cell at the head of the order
UpstreamOfHead == Upstream(build_dependency_graph(cells), Head(order))

\* C36 as stated: a cell is dispatched only when every one of its upstream
\* cells has status success.
C36_DispatchedOnlyUnderSuccess ==
    [][Dispatch => \A dep \in UpstreamOfHead : StatusOf(dep) = SUCCESS]_vars

\* C36: a cell is dispatched by run_cell only when none of its upstream
\* cells failed or was blocked earlier in the same call: every upstream
\* cell the call has already processed has status success.
C36_DispatchedOnlyIfNoneFailedInThisRun ==
    [][Dispatch =>
         /\ UpstreamOfHead \cap failed_cells = {}
         /\ \A dep \in UpstreamOfHead :
              (\E i \in 1..Len(results) : results[i] = dep)
                  => StatusOf(dep) = SUCCESS]_vars

\* a cell is being executed with one upstream cell run with success in
\* this call and another one that was never run
C36_Witness ==
    /\ pc = "exec"
    /\ \E dep \in UpstreamOfHead :
          /\ \E i \in 1..Len(results) : results[i] = dep
          /\ StatusOf(dep) = SUCCESS
    /\ \E dep \in UpstreamOfHead : StatusOf(dep) = IDLE

\* ------------------------------------------------------------------------
\* the values a source binds a name to when its last statement on that name
\* assigns a constant: one value, or none
ConstantBound(code, n) ==
    { code[i].const : i \in { j \in 1..Len(code) :
                                /\ code[j].target = n
                                /\ code[j].op = "assign"
                                /\ code[j].loads = {}
                                /\ \A k \in (j + 1)..Len(code) : code[k].target /= n } }

\* names written by several cells of the list
SharedNames(cs) == { n \in Names(cs) : Cardinality(Writers(cs, n)) >= 2 }

\* C37 as stated: after run_all_cells and run_cell calls with every cell in
\* success, each name written by several cells is bound to the value of its
\* last writer in list order.
C37_BoundByLastWriterInListOrder ==
    (RunReturned /\ \A i \in 1..Len(cells) : StatusOf(cells[i].id) = SUCCESS)
        => \A n \in SharedNames(cells) :
              \A v \in ConstantBound(find_cell_by_id(cells, LastWriter(cells, n)).code, n) :
                  /\ n \in DOMAIN namespace
                  /\ namespace[n] = v

\* the cells the call dispatched that write the name, as positions of the
\* dispatch order
DispatchedWriters(n) ==
    { i \in 1..Len(dispatched) :
        n \in analyze_cell(find_cell_by_id(cells, dispatched[i])).writes }

\* C37: after a run_all_cells or run_cell call in which every execution
\* succeeds, each name written by a cell the call executed is bound to the
\* value produced by the last cell, in the order of execution, that writes
\* it.
C37_BoundByLastExecutedWriter ==
    (RunReturned /\ \A i \in 1..Len(dispatched) : StatusOf(dispatched[i]) = SUCCESS)
        => \A n \in Names(cells) \ {"_result"} :
              DispatchedWriters(n) /= {} =>
                 LET w == CHOOSE i \in DispatchedWriters(n) :
                             \A j \in DispatchedWriters(n) : j <= i
                 IN \A v \in ConstantBound(find_cell_by_id(cells, dispatched[w]).code, n) :
                       /\ n \in DOMAIN namespace
                       /\ namespace[n] = v

\* every cell is in success, a call that executed an earlier writer of a
\* shared name has returned and the name holds that writer's value, not the
\* value of the last writer in list order
C37_Witness ==
    /\ RunReturned
    /\ \A i \in 1..Len(cells) : StatusOf(cells[i].id) = SUCCESS
    /\ \E n \in SharedNames(cells) :
          /\ DispatchedWriters(n) /= {}
          /\ n \in DOMAIN namespace
          /\ \E i \in DispatchedWriters(n) :
                namespace[n] \in ConstantBound(find_cell_by_id(cells, dispatched[i]).code, n)
          /\ \E v \in ConstantBound(find_cell_by_id(cells, LastWriter(cells, n)).code, n) :
                namespace[n] /= v

\* ------------------------------------------------------------------------
\* names written by a cell that stays in the list and is in success after
\* the step
WrittenByRemainingSuccess ==
    { n \in DOMAIN namespace :
        \E i \in 1..Len(cells') :
            /\ n \in analyze_cell(cells'[i]).writes
            /\ cell_states'[cells'[i].id].status = SUCCESS }

\* C38 as stated: deleting a cell leaves bound every name that a remaining
\* cell in status success writes.
C38_DeleteKeepsNamesOfRemainingWriters ==
    [][DeleteCell => WrittenByRemainingSuccess \subseteq DOMAIN namespace']_vars

\* C38: deleting a cell removes from the environment exactly the bound
\* names that the deleted cell's current source writes, whether or not a
\* remaining cell writes them too; every other name keeps its value.
C38_DeleteRemovesExactlyItsWrites ==
    [][DeleteCell =>
         \A cid \in DeletedIds :
            LET writes == analyze_cell(find_cell_by_id(cells, cid)).writes
            IN /\ DOMAIN namespace' = DOMAIN namespace \ writes
               /\ \A n \in DOMAIN namespace' : namespace'[n] = namespace[n]]_vars

\* the first cell was deleted after a run: a name that a remaining cell in
\* success writes is unbound while a name that only a remaining cell
\* writes is still bound
C38_Witness ==
    /\ Idle
    /\ edits = 1
    /\ IdPool[1] \notin CellIds(cells)
    /\ DOMAIN namespace /= {}
    /\ \E i \in 1..Len(cells) :
          /\ cell_states[cells[i].id].status = SUCCESS
          /\ ~Bound(namespace, analyze_cell(cells[i]).writes)

====
